---- MODULE Spec2Model ----
(***************************************************************************)
(* Model of src/app.py: the election dashboard script.  load_data reads    *)
(* three CSV files, cleans and maps their column labels, sanitises the     *)
(* 2024 Margin column, tags every row with its year and concatenates the   *)
(* three frames; the script body then filters the unioned table by year,   *)
(* state and party and computes the KPI metrics.                           *)
(*                                                                         *)
(* Strings are sequences of one-character strings so that label cleaning   *)
(* and numeric parsing are computed, not assumed.  A data frame is a       *)
(* record [columns, rows]; columns is a sequence of labels (pandas allows  *)
(* duplicates) and a row is [src, cells] where cells is aligned with       *)
(* columns and src = <<file, line>> records which file line the row was    *)
(* read from (history information, never read by the program).             *)
(***************************************************************************)
EXTENDS Integers, Sequences, FiniteSets, TLC

\* Total number of data lines over the three CSV files.
MaxRows == 3

Y2014 == 2014
Y2019 == 2019
Y2024 == 2024
Years == {Y2014, Y2019, Y2024}

---------------------------------------------------------------------------
(* Cell values: NaN, numbers and strings, in one record shape. *)

Null == [t |-> "null", s |-> <<>>, n |-> 0]
Num(k) == [t |-> "num", s |-> <<>>, n |-> k]
Str(chars) == [t |-> "str", s |-> chars, n |-> 0]

\* The literal "All" of the two selectboxes.
All == Str(<<"A","l","l">>)

---------------------------------------------------------------------------
(* Label cleaning: normalize *)

UpperCase == <<"A","B","C","D","E","F","G","H","I","J","K","L","M",
               "N","O","P","Q","R","S","T","U","V","W","X","Y","Z">>
LowerCase == <<"a","b","c","d","e","f","g","h","i","j","k","l","m",
               "n","o","p","q","r","s","t","u","v","w","x","y","z">>
Whitespace == {" ", "\t"}

RECURSIVE LStrip(_)
LStrip(s) ==
  IF s # <<>> /\ Head(s) \in Whitespace THEN LStrip(Tail(s)) ELSE s

RECURSIVE RStrip(_)
RStrip(s) ==
  IF s # <<>> /\ s[Len(s)] \in Whitespace
  THEN RStrip(SubSeq(s, 1, Len(s) - 1)) ELSE s

Strip(s) == RStrip(LStrip(s))

LowerChar(c) ==
  IF \E i \in DOMAIN UpperCase : UpperCase[i] = c
  THEN LowerCase[CHOOSE i \in DOMAIN UpperCase : UpperCase[i] = c]
  ELSE c

Lower(s) == [i \in DOMAIN s |-> LowerChar(s[i])]

Replace(s, old, new) == [i \in DOMAIN s |-> IF s[i] = old THEN new ELSE s[i]]

Clean(label) == Replace(Replace(Lower(Strip(label)), " ", "_"), ".", "_")

Normalize(f) ==
  [f EXCEPT !.columns = [i \in DOMAIN f.columns |-> Clean(f.columns[i])]]

---------------------------------------------------------------------------
(* Semantic mapping: map_semantic *)

StateField == <<"s","t","a","t","e">>
PartyField == <<"p","a","r","t","y">>
VotesField == <<"v","o","t","e","s">>
MarginField == <<"m","a","r","g","i","n">>
YearField == <<"y","e","a","r">>
Canonical == {StateField, PartyField, VotesField, MarginField}

StateSynonyms == {StateField, <<"s","t","a","t","e","_","n","a","m","e">>}
PartySynonyms == {PartyField, <<"p","a","r","t","y","_","n","a","m","e">>}
VotesSynonyms == {VotesField, <<"t","o","t","a","l","_","v","o","t","e","s">>,
                  <<"v","a","l","i","d","_","v","o","t","e","s">>}
MarginSynonyms == {MarginField, <<"v","o","t","e","_","m","a","r","g","i","n">>,
                   <<"w","i","n","n","i","n","g","_","m","a","r","g","i","n">>}

\* Variant of Rename whose votes group lacks valid_votes.
RenameWithoutValidVotes(c) ==
  IF c \in StateSynonyms THEN StateField
  ELSE IF c \in PartySynonyms THEN PartyField
  ELSE IF c \in VotesSynonyms \ {<<"v","a","l","i","d","_","v","o","t","e","s">>}
    THEN VotesField
  ELSE IF c \in MarginSynonyms THEN MarginField
  ELSE c

Rename(c) ==
  IF c \in StateSynonyms THEN StateField
  ELSE IF c \in PartySynonyms THEN PartyField
  ELSE IF c \in VotesSynonyms THEN VotesField
  ELSE IF c \in MarginSynonyms THEN MarginField
  ELSE c

MapSemantic(f) ==
  [f EXCEPT !.columns = [i \in DOMAIN f.columns |-> Rename(f.columns[i])]]

Has(f, col) == \E i \in DOMAIN f.columns : f.columns[i] = col

---------------------------------------------------------------------------
(* pandas helpers used by load_data and the script body *)

\* Positions of the columns labelled col.
Positions(f, col) == {i \in DOMAIN f.columns : f.columns[i] = col}

\* A column index is unique when no label occurs twice.
IsUnique(cols) == \A i, j \in DOMAIN cols : cols[i] = cols[j] => i = j

Digits == <<"0","1","2","3","4","5","6","7","8","9">>
IsDigit(c) == \E i \in DOMAIN Digits : Digits[i] = c
DigitVal(c) == (CHOOSE i \in DOMAIN Digits : Digits[i] = c) - 1

RECURSIVE ParseDigits(_)
ParseDigits(s) ==
  IF s = <<>> THEN 0
  ELSE 10 * ParseDigits(SubSeq(s, 1, Len(s) - 1)) + DigitVal(s[Len(s)])

\* pd.to_numeric(..., errors="coerce") on one cell: numbers stay, strings
\* made of an optional sign and decimal digits parse, anything else is NaN.
ToNumeric(cell) ==
  IF cell.t = "num" THEN cell
  ELSE IF cell.t = "null" THEN Null
  ELSE LET signed == cell.s # <<>> /\ cell.s[1] \in {"-", "+"}
           body == IF signed THEN Tail(cell.s) ELSE cell.s
           sign == IF signed /\ cell.s[1] = "-" THEN -1 ELSE 1
       IN IF body # <<>> /\ \A i \in DOMAIN body : IsDigit(body[i])
          THEN Num(sign * ParseDigits(body))
          ELSE Null

\* d24["Margin"] = pd.to_numeric(d24["Margin"], errors="coerce")
Margin == <<"M","a","r","g","i","n">>
CoerceMargin(f) ==
  [f EXCEPT !.rows = [k \in DOMAIN f.rows |->
     [f.rows[k] EXCEPT !.cells = [j \in DOMAIN f.columns |->
        IF f.columns[j] = Margin THEN ToNumeric(f.rows[k].cells[j])
        ELSE f.rows[k].cells[j]]]]]

\* Variant of DropnaMargin that keeps the rows whose Margin is NaN.
DropnaMarginKeepsRows(f) == f

\* d24.dropna(subset=["Margin"])
DropnaMargin(f) ==
  [f EXCEPT !.rows = SelectSeq(f.rows,
     LAMBDA r : \A j \in Positions(f, Margin) : r.cells[j] # Null)]

Sanitize(f) == IF Has(f, Margin) THEN DropnaMargin(CoerceMargin(f)) ELSE f

\* Variant of SetYear that leaves an existing "year" column as it is.
SetYearKeepsExisting(f, y) ==
  IF Has(f, YearField) THEN f
  ELSE [columns |-> Append(f.columns, YearField),
        rows |-> [k \in DOMAIN f.rows |->
          [f.rows[k] EXCEPT !.cells = Append(f.rows[k].cells, Num(y))]]]

\* d["year"] = Y: overwrites every column labelled "year", or appends one.
SetYear(f, y) ==
  IF Has(f, YearField)
  THEN [f EXCEPT !.rows = [k \in DOMAIN f.rows |->
         [f.rows[k] EXCEPT !.cells = [j \in DOMAIN f.columns |->
            IF f.columns[j] = YearField THEN Num(y) ELSE f.rows[k].cells[j]]]]]
  ELSE [columns |-> Append(f.columns, YearField),
        rows |-> [k \in DOMAIN f.rows |->
          [f.rows[k] EXCEPT !.cells = Append(f.rows[k].cells, Num(y))]]]

RECURSIVE AppendNew(_, _)
AppendNew(base, more) ==
  IF more = <<>> THEN base
  ELSE AppendNew(IF \E i \in DOMAIN base : base[i] = Head(more)
                 THEN base ELSE Append(base, Head(more)), Tail(more))

\* Column index of the concatenation (sort=False): the first frame's labels,
\* then the labels not seen before in order of appearance.
UnionColumns(d14, d19, d24) ==
  IF d14.columns = d19.columns /\ d19.columns = d24.columns
  THEN d14.columns
  ELSE AppendNew(AppendNew(AppendNew(<<>>, d14.columns), d19.columns),
                 d24.columns)

\* pd.concat raises InvalidIndexError when a frame whose labels are not
\* unique has to be reindexed to the combined columns.
ConcatRaises(d14, d19, d24) ==
  \E f \in {d14, d19, d24} :
    /\ f.columns # UnionColumns(d14, d19, d24)
    /\ ~IsUnique(f.columns)

\* Variant of Reindex that fills the missing cells with 0.
ReindexFillsZero(f, cols) ==
  IF f.columns = cols THEN f.rows
  ELSE [k \in DOMAIN f.rows |->
         [f.rows[k] EXCEPT !.cells = [p \in DOMAIN cols |->
            IF Has(f, cols[p])
            THEN f.rows[k].cells[CHOOSE j \in Positions(f, cols[p]) : TRUE]
            ELSE Num(0)]]]

\* Rows of one frame aligned to the combined columns; missing cells are NaN.
Reindex(f, cols) ==
  IF f.columns = cols THEN f.rows
  ELSE [k \in DOMAIN f.rows |->
         [f.rows[k] EXCEPT !.cells = [p \in DOMAIN cols |->
            IF Has(f, cols[p])
            THEN f.rows[k].cells[CHOOSE j \in Positions(f, cols[p]) : TRUE]
            ELSE Null]]]

\* Variant of Concat that puts the 2019 rows first.
ConcatWrongOrder(d14, d19, d24) ==
  LET cols == UnionColumns(d14, d19, d24)
  IN [columns |-> cols,
      rows |-> Reindex(d19, cols) \o Reindex(d14, cols) \o Reindex(d24, cols)]

Concat(d14, d19, d24) ==
  LET cols == UnionColumns(d14, d19, d24)
  IN [columns |-> cols,
      rows |-> Reindex(d14, cols) \o Reindex(d19, cols) \o Reindex(d24, cols)]

EmptyFrame == [columns |-> <<>>, rows |-> <<>>]

---------------------------------------------------------------------------
(* The script body: filters and KPIs *)

\* Variant of FilterEq in which a NaN cell passes the comparison.
FilterEqKeepsNaN(f, col, value) ==
  [f EXCEPT !.rows = SelectSeq(f.rows,
     LAMBDA r : \E j \in Positions(f, col) :
                   r.cells[j] = Null \/ r.cells[j] = value)]

\* frame[frame[col] == value]; a NaN cell never compares equal.
FilterEq(f, col, value) ==
  [f EXCEPT !.rows = SelectSeq(f.rows,
     LAMBDA r : \E j \in Positions(f, col) :
                   r.cells[j] # Null /\ r.cells[j] = value)]

\* frame[col].dropna().unique(), as a set.
Unique(f, col) ==
  {f.rows[k].cells[j] : k \in DOMAIN f.rows, j \in Positions(f, col)} \ {Null}

\* pd.to_numeric(frame[col], errors="coerce").dropna()
NumericValues(f, col) ==
  LET j == CHOOSE p \in Positions(f, col) : TRUE
      coerced == [k \in DOMAIN f.rows |-> ToNumeric(f.rows[k].cells[j])]
  IN SelectSeq(coerced, LAMBDA c : c # Null)

RECURSIVE Sum(_)
Sum(cells) == IF cells = <<>> THEN 0 ELSE Head(cells).n + Sum(Tail(cells))

\* Series.mean(): NaN for an empty series, else the quotient sum / count,
\* kept as a fraction.
Mean(cells) ==
  [nan |-> cells = <<>>, sum |-> Sum(cells),
   count |-> IF cells = <<>> THEN 1 ELSE Len(cells)]

\* Variant of IntOf that rounds toward minus infinity.
IntOfFloors(m) == m.sum \div m.count

\* int(x) truncates toward zero.
IntOf(m) ==
  IF m.sum >= 0 THEN m.sum \div m.count ELSE -((-m.sum) \div m.count)

NA == [na |-> TRUE, v |-> 0]

\* The value shown by the Avg Votes / Avg Margin metric.
AvgMetric(f, col) ==
  IF Has(f, col)
  THEN LET avg == Mean(NumericValues(f, col))
       IN IF ~avg.nan THEN [na |-> FALSE, v |-> IntOf(avg)] ELSE NA
  ELSE NA

---------------------------------------------------------------------------
(* The CSV files *)

RowKinds == {1, 2, 3}

\* Cell written in a line of kind k under a header label.
CellOf(label, k) ==
  LET c == Clean(label)
      pick(a, b, d) == IF k = 1 THEN a ELSE IF k = 2 THEN b ELSE d
  IN IF Rename(c) = StateField
       THEN pick(Str(<<"X">>), Str(<<"Y">>), Str(<<"X">>))
     ELSE IF Rename(c) = PartyField
       THEN pick(Str(<<"A">>), Null, Str(<<"B">>))
     ELSE IF Rename(c) = VotesField
       THEN pick(Str(<<"1","0">>), Str(<<"x">>), Str(<<"7">>))
     ELSE IF c = MarginField
       THEN pick(Str(<<"1","0","0","0","0">>), Str(<<"N","/","A">>),
                 Str(<<"-","5","0","0">>))
     ELSE IF Rename(c) = MarginField
       THEN pick(Str(<<"-","3">>), Str(<<"x">>), Str(<<"0">>))
     ELSE IF c = YearField
       THEN pick(Num(1999), Num(Y2019), Num(1999))
     ELSE pick(Str(<<"q">>), Null, Str(<<"7">>))

\* Headers of the three files, one function per combination.
Headers ==
  { [y \in Years |->
       IF y = Y2014 THEN <<<<"S","t","a","t","e">>, <<"P","a","r","t","y">>,
                           <<"V","o","t","e","s">>>>
       ELSE IF y = Y2019
         THEN <<<<"s","t","a","t","e","_","n","a","m","e">>,
                <<"p","a","r","t","y","_","n","a","m","e">>,
                <<"t","o","t","a","l","_","v","o","t","e","s">>>>
       ELSE <<<<"S","t","a","t","e">>, <<"P","a","r","t","y">>, Margin>>],
    [y \in Years |->
       IF y = Y2014 THEN <<<<"S","t","a","t","e">>, <<"Y","e","a","r">>,
                           <<"F","o","o">>>>
       ELSE IF y = Y2019
         THEN <<<<"P","a","r","t","y">>,
                <<"V","o","t","e"," ","M","a","r","g","i","n">>>>
       ELSE <<<<"S","t","a","t","e">>, <<"m","a","r","g","i","n">>>>],
    [y \in Years |->
       IF y = Y2014 THEN <<<<"S","t","a","t","e">>,
                           <<"S","t","a","t","e"," ","N","a","m","e">>>>
       ELSE IF y = Y2019 THEN <<<<"S","t","a","t","e">>>>
       ELSE <<Margin>>],
    [y \in Years |->
       <<<<"S","t","a","t","e">>,
         <<"s","t","a","t","e","_","n","a","m","e">>, Margin>>],
    [y \in Years |->
       <<<<"V","o","t","e","s">>,
         <<"T","o","t","a","l"," ","V","o","t","e","s">>>>],
    [y \in Years |->
       IF y = Y2014 THEN <<<<"F","o","o">>,
                           <<"V","a","l","i","d",".","V","o","t","e","s">>>>
       ELSE IF y = Y2019 THEN <<<<"F","o","o">>>>
       ELSE <<<<" ","s","t","a","t","e"," ">>>>] }

KindSeqs(n) == UNION {[1..m -> RowKinds] : m \in 0..n}

File(header, kinds) ==
  [header |-> header,
   lines |-> [i \in DOMAIN kinds |->
                [j \in DOMAIN header |-> CellOf(header[j], kinds[i])]]]

---------------------------------------------------------------------------
(* State *)

VARIABLES
  files,     \* the three CSV files: header and data lines, by year
  frames,    \* load_data's locals d14, d19, d24 when it ends, by year
  df,        \* the unioned table returned by load_data
  year,      \* selection of the Election Year selectbox
  state,     \* selection of the State selectbox
  party,     \* selection of the Party selectbox
  filtered,  \* the filtered view
  metrics,   \* values shown by the Records, Avg Votes and Avg Margin metrics
  pc,        \* position in the script
  err        \* exception that ended the script, or "none"

vars == <<files, frames, df, year, state, party, filtered, metrics, pc, err>>

NoMetrics == [records |-> 0, avg_votes |-> NA, avg_margin |-> NA]

Init ==
  /\ \E h \in Headers :
       \E a \in KindSeqs(MaxRows) :
         \E b \in KindSeqs(MaxRows - Len(a)) :
           \E c \in KindSeqs(MaxRows - Len(a) - Len(b)) :
             files = [y \in Years |->
                        File(h[y], IF y = Y2014 THEN a
                                   ELSE IF y = Y2019 THEN b ELSE c)]
  /\ frames = [y \in Years |-> EmptyFrame]
  /\ df = EmptyFrame
  /\ year = Null
  /\ state = Null
  /\ party = Null
  /\ filtered = EmptyFrame
  /\ metrics = NoMetrics
  /\ pc = "start"
  /\ err = "none"

\* pd.read_csv: the header becomes the columns, each line a row.
ReadCsv(y) ==
  [columns |-> files[y].header,
   rows |-> [i \in DOMAIN files[y].lines |->
               [src |-> <<y, i>>, cells |-> files[y].lines[i]]]]

Crash(e) ==
  /\ pc' = "crashed"
  /\ err' = e

\* load_data, called once; its result is cached for every rerun.
LoadData ==
  /\ pc = "start"
  /\ LET d14 == SetYear(MapSemantic(Normalize(ReadCsv(Y2014))), Y2014)
         d19 == SetYear(MapSemantic(Normalize(ReadCsv(Y2019))), Y2019)
         d24 == SetYear(MapSemantic(Normalize(Sanitize(ReadCsv(Y2024)))),
                        Y2024)
     IN /\ frames' = [y \in Years |->
                        IF y = Y2014 THEN d14
                        ELSE IF y = Y2019 THEN d19 ELSE d24]
        /\ IF ConcatRaises(d14, d19, d24)
           THEN /\ Crash("InvalidIndexError")
                /\ df' = df
           ELSE /\ df' = Concat(d14, d19, d24)
                /\ pc' = "loaded"
                /\ err' = err
  /\ UNCHANGED <<files, year, state, party, filtered, metrics>>

\* The Election Year selectbox and filtered = df[df["year"] == year].
SelectYear ==
  /\ pc = "loaded"
  /\ IF Cardinality(Positions(df, YearField)) > 1
     THEN /\ Crash("AttributeError")
          /\ UNCHANGED <<year, filtered>>
     ELSE /\ \E y \in (IF Unique(df, YearField) = {} THEN {Null}
                       ELSE Unique(df, YearField)) :
               /\ year' = y
               /\ filtered' = FilterEq(df, YearField, y)
          /\ pc' = "year"
          /\ err' = err
  /\ UNCHANGED <<files, frames, df, state, party, metrics>>

\* The State selectbox and filter.
StateFilter ==
  /\ pc = "year"
  /\ IF Has(filtered, StateField)
     THEN IF Cardinality(Positions(filtered, StateField)) > 1
          THEN /\ Crash("AttributeError")
               /\ UNCHANGED <<state, filtered>>
          ELSE /\ \E s \in {All} \cup Unique(filtered, StateField) :
                    /\ state' = s
                    /\ filtered' = IF s # All
                                   THEN FilterEq(filtered, StateField, s)
                                   ELSE filtered
               /\ pc' = "state"
               /\ err' = err
     ELSE /\ pc' = "state"
          /\ UNCHANGED <<state, filtered, err>>
  /\ UNCHANGED <<files, frames, df, year, party, metrics>>

\* The Party selectbox and filter.
PartyFilter ==
  /\ pc = "state"
  /\ IF Has(filtered, PartyField)
     THEN IF Cardinality(Positions(filtered, PartyField)) > 1
          THEN /\ Crash("AttributeError")
               /\ UNCHANGED <<party, filtered>>
          ELSE /\ \E p \in {All} \cup Unique(filtered, PartyField) :
                    /\ party' = p
                    /\ filtered' = IF p # All
                                   THEN FilterEq(filtered, PartyField, p)
                                   ELSE filtered
               /\ pc' = "party"
               /\ err' = err
     ELSE /\ pc' = "party"
          /\ UNCHANGED <<party, filtered, err>>
  /\ UNCHANGED <<files, frames, df, year, state, metrics>>

\* The Records, Avg Votes and Avg Margin metrics.
Kpis ==
  /\ pc = "party"
  /\ IF \E col \in {VotesField, MarginField} :
          Cardinality(Positions(filtered, col)) > 1
     THEN /\ Crash("TypeError")
          /\ UNCHANGED metrics
     ELSE /\ metrics' = [records |-> Len(filtered.rows),
                         avg_votes |-> AvgMetric(filtered, VotesField),
                         avg_margin |-> AvgMetric(filtered, MarginField)]
          /\ pc' = "done"
          /\ err' = err
  /\ UNCHANGED <<files, frames, df, year, state, party, filtered>>

\* A widget change reruns the script; load_data is served from the cache.
Rerun ==
  /\ pc = "done"
  /\ pc' = "loaded"
  /\ year' = Null
  /\ state' = Null
  /\ party' = Null
  /\ filtered' = EmptyFrame
  /\ metrics' = NoMetrics
  /\ UNCHANGED <<files, frames, df, err>>

Next ==
  \/ LoadData
  \/ SelectYear
  \/ StateFilter
  \/ PartyFilter
  \/ Kpis
  \/ Rerun

Spec == Init /\ [][Next]_vars

---------------------------------------------------------------------------
(* Properties *)

\* load_data has ended and returned the unioned table.
Returned == pc \notin {"start"} /\ ~(pc = "crashed" /\ err = "InvalidIndexError")

\* The field a raw header label stands for, by the synonym table of the
\* specification.
FieldOf(label) ==
  LET c == Clean(label)
  IN IF c \in {StateField, <<"s","t","a","t","e","_","n","a","m","e">>}
       THEN StateField
     ELSE IF c \in {PartyField, <<"p","a","r","t","y","_","n","a","m","e">>}
       THEN PartyField
     ELSE IF c \in {VotesField, <<"t","o","t","a","l","_","v","o","t","e","s">>,
                    <<"v","a","l","i","d","_","v","o","t","e","s">>}
       THEN VotesField
     ELSE IF c \in {MarginField, <<"v","o","t","e","_","m","a","r","g","i","n">>,
                    <<"w","i","n","n","i","n","g","_","m","a","r","g","i","n">>}
       THEN MarginField
     ELSE c

\* The file of year y carries a column that maps to field.
Carries(y, field) ==
  \E j \in DOMAIN files[y].header : FieldOf(files[y].header[j]) = field

\* C1: for every year Y whose file has no column mapping to margin,
\* has(view, "margin") is false on the view filtered to year == Y, whatever
\* the other years' files contain.
C1_PresencePerYear ==
  \A y \in Years :
    (pc \in {"year", "state", "party", "done"} /\ year = Num(y)
       /\ ~Carries(y, MarginField))
    => ~Has(filtered, MarginField)

\* C3: load_data runs to completion on every triple of well-formed files;
\* no step ends in an error, also with two labels of one synonym group or
\* two labels that clean to the same string.
C3_LoadDataTotal == ~(pc = "crashed" /\ err = "InvalidIndexError")

\* C10: after normalize and map_semantic each dataset's schema contains
\* every canonical field at most once.
C10_CanonicalFieldOnce ==
  pc # "start" =>
    \A y \in Years : \A field \in Canonical :
      Cardinality(Positions(frames[y], field)) <= 1

\* The raw cell of line i of the file of year y under header position j.
RawCell(y, i, j) == files[y].lines[i][j]

\* Line i of the 2024 file passes the Margin sanitation.
Survives(i) ==
  \A j \in DOMAIN files[Y2024].header :
    files[Y2024].header[j] = Margin => ToNumeric(RawCell(Y2024, i, j)) # Null

SrcOf(y) == [i \in DOMAIN files[y].lines |-> <<y, i>>]

\* Number of rows of the unioned table tagged with year y.
CountYear(y) ==
  Cardinality({k \in DOMAIN df.rows :
                 \E j \in Positions(df, YearField) : df.rows[k].cells[j] = Num(y)})

\* C4: when the 2024 file has a column labelled exactly Margin, every line
\* whose Margin is not numeric is absent from the unioned table and every
\* line whose Margin is numeric is kept once, with that numeric margin.
C4_MarginSanitation ==
  Returned =>
    \A i \in DOMAIN files[Y2024].lines : \A j \in DOMAIN files[Y2024].header :
      files[Y2024].header[j] = Margin =>
        LET c == ToNumeric(RawCell(Y2024, i, j))
            kept == {k \in DOMAIN df.rows : df.rows[k].src = <<Y2024, i>>}
        IN IF c = Null THEN kept = {}
           ELSE /\ Cardinality(kept) = 1
                /\ \A k \in kept : \E p \in Positions(df, MarginField) :
                     df.rows[k].cells[p] = c

\* Witness of C4: Margin "10000", "N/A", "-500" gives exactly two 2024 rows,
\* with margins 10000 and -500.
C4_Witness ==
  /\ Returned
  /\ files[Y2024].header = <<<<"S","t","a","t","e">>, <<"P","a","r","t","y">>, Margin>>
  /\ [i \in DOMAIN files[Y2024].lines |-> RawCell(Y2024, i, 3)]
       = <<Str(<<"1","0","0","0","0">>), Str(<<"N","/","A">>),
           Str(<<"-","5","0","0">>)>>
  /\ Len(df.rows) = 2
  /\ \A k \in DOMAIN df.rows : \A p \in Positions(df, YearField) :
       df.rows[k].cells[p] = Num(Y2024)
  /\ \A p \in Positions(df, MarginField) :
       /\ df.rows[1].cells[p] = Num(10000)
       /\ df.rows[2].cells[p] = Num(-500)

\* C5: every row of the unioned table has exactly one year value, the
\* literal of the file it came from, also when the file had a column that
\* cleans to year; the per-year row counts sum to the total row count.
C5_YearTagging ==
  Returned =>
    /\ Positions(df, YearField) # {}
    /\ \A k \in DOMAIN df.rows :
         /\ df.rows[k].src[1] \in Years
         /\ \A j \in Positions(df, YearField) :
              df.rows[k].cells[j] = Num(df.rows[k].src[1])
    /\ CountYear(Y2014) + CountYear(Y2019) + CountYear(Y2024) = Len(df.rows)

\* Witness of C5: a tagged row whose file had its own Year column holding
\* another value.
C5_Witness ==
  /\ Returned
  /\ \E k \in DOMAIN df.rows : \E j \in DOMAIN files[Y2014].header :
       /\ df.rows[k].src[1] = Y2014
       /\ Clean(files[Y2014].header[j]) = YearField
       /\ RawCell(Y2014, df.rows[k].src[2], j) # Num(Y2014)

\* C6: the rows of the unioned table are all 2014 lines, then all 2019
\* lines, then the 2024 lines that survive the Margin sanitation, each
\* group in file order.
C6_RowSequence ==
  Returned =>
    [k \in DOMAIN df.rows |-> df.rows[k].src]
      = SrcOf(Y2014) \o SrcOf(Y2019)
          \o SelectSeq(SrcOf(Y2024), LAMBDA s : Survives(s[2]))

\* Witness of C6: a 2014 or 2019 row with a non-numeric margin is kept
\* while a 2024 line was dropped.
C6_Witness ==
  /\ Returned
  /\ Len(df.rows) < Len(files[Y2014].lines) + Len(files[Y2019].lines)
                      + Len(files[Y2024].lines)
  /\ \E k \in DOMAIN df.rows : \E y \in {Y2014, Y2019} :
       \E j \in DOMAIN files[y].header :
         /\ df.rows[k].src[1] = y
         /\ FieldOf(files[y].header[j]) = MarginField
         /\ RawCell(y, df.rows[k].src[2], j) # Null
         /\ ToNumeric(RawCell(y, df.rows[k].src[2], j)) = Null

\* A header label outside every synonym group.
Unmapped(label) == FieldOf(label) = Clean(label) /\ Clean(label) \notin Canonical

\* Occurrence number of header position j among the positions of its field.
Rank(y, j) ==
  Cardinality({q \in 1..j :
                 FieldOf(files[y].header[q]) = FieldOf(files[y].header[j])})

\* Columns of the unioned table that hold header position j of file y.
UnionPos(y, j) ==
  {p \in Positions(df, FieldOf(files[y].header[j])) :
     Cardinality({q \in 1..p : df.columns[q] = df.columns[p]}) = Rank(y, j)}

\* load_data has just ended, with the unioned table or with an exception.
AtReturn == pc = "loaded" \/ (pc = "crashed" /\ err = "InvalidIndexError")

\* Every mapped label is renamed to its canonical field and every other
\* label is only cleaned.
LabelsMapped ==
  AtReturn =>
    \A y \in Years : \A j \in DOMAIN files[y].header :
      LET c == Clean(files[y].header[j])
          col == frames[y].columns[j]
      IN /\ c \in StateSynonyms => col = StateField
         /\ c \in PartySynonyms => col = PartyField
         /\ c \in VotesSynonyms => col = VotesField
         /\ c \in MarginSynonyms => col = MarginField
         /\ Unmapped(files[y].header[j]) => col = c

\* The cells of the unmapped columns in labels are the raw cells.
PassThrough(labels) ==
  pc = "loaded" =>
    \A k \in DOMAIN df.rows :
      LET y == df.rows[k].src[1]
          i == df.rows[k].src[2]
      IN \A j \in DOMAIN files[y].header :
           (Unmapped(files[y].header[j]) /\ Clean(files[y].header[j]) \in labels)
           => /\ UnionPos(y, j) # {}
              /\ \A p \in UnionPos(y, j) : df.rows[k].cells[p] = RawCell(y, i, j)

\* Cleaned labels of the three files.
CleanedLabels ==
  UNION {{Clean(files[y].header[j]) : j \in DOMAIN files[y].header} :
           y \in Years}

\* C2 as stated: every mapped label is renamed to its canonical field, and
\* every unmapped column passes through with, for every row, the raw cell.
C2_Original ==
  /\ LabelsMapped
  /\ PassThrough(CleanedLabels)

\* C2 amended: as C2, for every row of the unioned table and every unmapped
\* column whose cleaned label is not year (a column that cleans to year is
\* overwritten by the year tag).
C2_MappingAndPassThrough ==
  /\ LabelsMapped
  /\ PassThrough(CleanedLabels \ {YearField})

\* Witness of C2: a file with a valid_votes synonym and an unmapped column
\* whose non-null cell is in the unioned table.
C2_Witness ==
  /\ Returned
  /\ \E k \in DOMAIN df.rows :
       LET y == df.rows[k].src[1]
       IN /\ \E j \in DOMAIN files[y].header :
               /\ Unmapped(files[y].header[j])
               /\ Clean(files[y].header[j]) # YearField
               /\ RawCell(y, df.rows[k].src[2], j) # Null
               /\ \E p \in UnionPos(y, j) :
                    df.rows[k].cells[p] = RawCell(y, df.rows[k].src[2], j)
          /\ \E j \in DOMAIN files[y].header :
               /\ Clean(files[y].header[j])
                    = <<"v","a","l","i","d","_","v","o","t","e","s">>
               /\ frames[y].columns[j] = VotesField

\* Fields of the three canonical schemas.
SourceFields ==
  UNION {{FieldOf(files[y].header[j]) : j \in DOMAIN files[y].header} :
           y \in Years}

\* The cell keeps the raw value; the 2024 Margin column holds its numeric
\* coercion.
SameValue(y, j, cell, rawcell) ==
  \/ cell = rawcell
  \/ y = Y2024 /\ files[y].header[j] = Margin /\ cell = ToNumeric(rawcell)

NullFill(fields) ==
  pc = "loaded" =>
    /\ {df.columns[p] : p \in DOMAIN df.columns} = SourceFields \cup {YearField}
    /\ \A k \in DOMAIN df.rows : \A field \in fields :
         LET y == df.rows[k].src[1]
             i == df.rows[k].src[2]
         IN IF ~Carries(y, field)
            THEN \A p \in Positions(df, field) : df.rows[k].cells[p] = Null
            ELSE \A j \in DOMAIN files[y].header :
                   FieldOf(files[y].header[j]) = field =>
                     /\ UnionPos(y, j) # {}
                     /\ \A p \in UnionPos(y, j) :
                          SameValue(y, j, df.rows[k].cells[p], RawCell(y, i, j))

\* C7 as stated: the schema is the union of the three canonical schemas
\* plus year; for every field F, the F cell of a row whose file had no column
\* mapping to F is null, and a row whose file carried F keeps its own value.
C7_Original == NullFill(SourceFields)

\* C7 amended: as C7, for every field F other than year (the year cell is the
\* year tag, also for a file that had a column cleaning to year).
C7_NullFill == NullFill(SourceFields \ {YearField})

\* Witness of C7: a row of a year without margin has a null margin cell while
\* a row of another year has a margin value.
C7_Witness ==
  /\ Returned
  /\ \E k1, k2 \in DOMAIN df.rows : \E p \in Positions(df, MarginField) :
       /\ ~Carries(df.rows[k1].src[1], MarginField)
       /\ df.rows[k1].cells[p] = Null
       /\ Carries(df.rows[k2].src[1], MarginField)
       /\ df.rows[k2].cells[p] # Null

\* Row r of the unioned table matches the current selection.
Matches(r) ==
  /\ \E j \in Positions(df, YearField) : r.cells[j] # Null /\ r.cells[j] = year
  /\ (Has(df, StateField) /\ state # All)
       => \E j \in Positions(df, StateField) :
            r.cells[j] # Null /\ r.cells[j] = state
  /\ (Has(df, PartyField) /\ party # All)
       => \E j \in Positions(df, PartyField) :
            r.cells[j] # Null /\ r.cells[j] = party

\* The view obtained by applying the party filter before the state filter.
PartyThenState ==
  LET byYear == FilterEq(df, YearField, year)
      byParty == IF Has(df, PartyField) /\ party # All
                 THEN FilterEq(byYear, PartyField, party) ELSE byYear
  IN IF Has(df, StateField) /\ state # All
     THEN FilterEq(byParty, StateField, state) ELSE byParty

\* The filtered view is the selection of the matching rows, in either order.
ViewExact ==
  pc \in {"party", "done"} =>
    /\ filtered.columns = df.columns
    /\ filtered.rows = SelectSeq(df.rows, Matches)
    /\ filtered = PartyThenState

\* C8: for every selection (year, state, party) the filtered view is exactly
\* the rows of the unioned table with that year, that state unless All and
\* that party unless All, whichever order the two filters are applied in,
\* and filtering leaves the unioned table unchanged.
C8_FilterCascading ==
  [][ /\ ViewExact'
      /\ pc # "start" => df' = df ]_vars

\* Witness of C8: year 2019, state "X", party All, with rows of 2019 left out.
C8_Witness ==
  /\ pc = "party"
  /\ year = Num(Y2019)
  /\ state = Str(<<"X">>)
  /\ party = All
  /\ filtered.rows # <<>>
  /\ Len(filtered.rows) < Len(FilterEq(df, YearField, year).rows)

\* Rows of the filtered view with a numeric value under col.
NumericRows(col) ==
  {k \in DOMAIN filtered.rows :
     \E j \in Positions(filtered, col) : ToNumeric(filtered.rows[k].cells[j]) # Null}

RECURSIVE Total(_, _)
\* Sum of the numeric values under col in the first k rows.
Total(col, k) ==
  IF k = 0 THEN 0
  ELSE Total(col, k - 1)
         + (IF k \in NumericRows(col)
            THEN ToNumeric(filtered.rows[k].cells[
                   CHOOSE j \in Positions(filtered, col) : TRUE]).n
            ELSE 0)

Abs(x) == IF x < 0 THEN -x ELSE x

\* The metric is N/A exactly when col is absent or has no numeric value.
NotAvailableExactly(col, metric) ==
  metric.na <=> (~Has(filtered, col) \/ NumericRows(col) = {})

====
